---- MODULE Spec2Model ----
(***************************************************************************)
(* Model of the resume question-answering service: the FastAPI handler     *)
(* main.ask, the lazily initialised pipeline of rag.answer_question /      *)
(* rag.get_rag_chain, and the chunker rag._resume_to_chunks.               *)
(*                                                                         *)
(* Spec      : the running service (two worker threads of the request      *)
(*             thread pool, the process environment, the data files and    *)
(*             the persisted Chroma collection).                           *)
(* ChunkSpec : the pure function _resume_to_chunks applied to resume       *)
(*             records drawn from a bounded set.                           *)
(***************************************************************************)
EXTENDS Integers, Sequences, FiniteSets, TLC

VARIABLES
    pc,          \* per thread: where the request handler stands
    q,           \* per thread: req.question; from _chain.invoke on, its argument
    chunks,      \* per thread: the local `chunks` of get_rag_chain
    exc,         \* per thread: the exception the last request raised
    resp,        \* per thread: the HTTP response of the last request
    _chain,      \* rag._chain, the process-wide cached pipeline
    environ,     \* os.environ: GOOGLE_API_KEY and GEMINI_API_KEY
    resume_file, \* data/resume-full.json
    index,       \* the persisted Chroma collection "resume_rag"
    served503,   \* number of 503 responses the service has sent
    c_data,      \* ChunkSpec: the record handed to _resume_to_chunks
    c_out,       \* ChunkSpec: what _resume_to_chunks returned
    c_done       \* ChunkSpec: whether the function has been applied

svars == <<pc, q, chunks, exc, resp, _chain, environ, resume_file, index, served503>>
cvars == <<c_data, c_out, c_done>>
vars  == <<svars, cvars>>

----------------------------------------------------------------------------
(* Bounds of the model *)

\* longest question a client sends (characters)
MaxQLen == 2
\* number of index builds the model follows before it stops admitting
\* requests that would build again
MaxWrites == 2
\* longest education / professional_experience list of a ChunkSpec record
MaxEntries == 2

----------------------------------------------------------------------------
(* Python values *)

\* {} : a dict with no key
EmptyDict == [k \in {} |-> ""]

\* dict.get(k, default)
Get(d, k, default) == IF k \in DOMAIN d THEN d[k] ELSE default

\* a JSON value a field may hold where the code tests isinstance(v, list)
JList(items) == [t |-> "list", v |-> items]
JStr(s)      == [t |-> "str",  v |-> s]

\* Python truthiness of such a value: a non-empty list, a non-empty string
Truthy(x) == IF x.t = "list" THEN Len(x.v) > 0 ELSE x.v # ""

\* sep.join(items)
RECURSIVE Join(_, _)
Join(sep, items) ==
    IF Len(items) = 0 THEN ""
    ELSE IF Len(items) = 1 THEN items[1]
    ELSE items[1] \o sep \o Join(sep, Tail(items))

\* langchain Document(page_content=..., metadata=...)
Document(text, meta) == [page_content |-> text, metadata |-> meta]

----------------------------------------------------------------------------
(* rag._resume_to_chunks *)

SummaryKeys == <<"technical_skills_experience", "key_strengths", "hobbies">>

ProfileChunks(data) ==
    LET p == Get(data, "profile", EmptyDict) IN
    IF DOMAIN p # {}
    THEN << Document("Profile: " \o Get(p, "name", "") \o ". Address: " \o Get(p, "address", "")
                     \o ". Email: " \o Get(p, "email", "") \o ". Phone: " \o Get(p, "phone", "")
                     \o ". LinkedIn: " \o Get(p, "linkedin", "") \o ".",
                     [section |-> "profile"]) >>
    ELSE << >>

RECURSIVE SummaryKeyChunks(_, _)
SummaryKeyChunks(s, i) ==
    IF i > Len(SummaryKeys) THEN << >>
    ELSE LET key  == SummaryKeys[i]
             here == IF key \in DOMAIN s /\ Truthy(s[key])
                     THEN LET items == IF s[key].t = "list" THEN s[key].v ELSE << s[key].v >>
                          IN  << Document("Summary " \o key \o ": " \o Join(" ", items),
                                          [section |-> "summary"]) >>
                     ELSE << >>
         IN  here \o SummaryKeyChunks(s, i + 1)

SummaryChunks(data) ==
    LET s == Get(data, "summary", EmptyDict) IN
    SummaryKeyChunks(s, 1)
    \o (IF Get(s, "next_great_challenge", "") # ""
        THEN << Document("Next great challenge: " \o s["next_great_challenge"],
                         [section |-> "summary"]) >>
        ELSE << >>)

\* technical_summary is a JSON object; ts.items() yields its pairs in file
\* order, so it is kept as a sequence of <<category, items>> pairs
RECURSIVE TechnicalChunks(_)
TechnicalChunks(ts) ==
    IF Len(ts) = 0 THEN << >>
    ELSE LET category == ts[1][1]
             items    == ts[1][2]
             here == IF Truthy(items)
                     THEN LET text == IF items.t = "list" THEN Join(" ", items.v) ELSE items.v
                          IN  << Document("Technical " \o category \o ": " \o text,
                                          [section |-> "technical"]) >>
                     ELSE << >>
         IN  here \o TechnicalChunks(Tail(ts))

\* a or b on strings
StrOr(a, b) == IF a # "" THEN a ELSE b

EducationChunk(ed) ==
    Document("Education: " \o Get(ed, "degree", "") \o " at " \o Get(ed, "school", "") \o ", "
             \o Get(ed, "date", "") \o ". " \o StrOr(Get(ed, "gpa", ""), Get(ed, "notes", "")) \o ".",
             [section |-> "education"])

RECURSIVE ProjectParts(_)
ProjectParts(projects) ==
    IF Len(projects) = 0 THEN << >>
    ELSE << "Project " \o Get(projects[1], "name", "") \o ": "
            \o Get(projects[1], "description", "") >>
         \o ProjectParts(Tail(projects))

ExperienceChunk(job) ==
    LET head  == "Company: " \o Get(job, "company", "") \o ". Role: "
                 \o Get(job, "role", Get(job, "title", "")) \o ". Date: "
                 \o Get(job, "date", "") \o "."
        tech  == IF Len(Get(job, "tech", << >>)) > 0
                 THEN << "Tech: " \o Join(", ", job["tech"]) >> ELSE << >>
        tasks == IF Len(Get(job, "tasks", << >>)) > 0
                 THEN << "Tasks: " \o Join(" ", job["tasks"]) >> ELSE << >>
        projs == IF Len(Get(job, "projects", << >>)) > 0
                 THEN ProjectParts(job["projects"]) ELSE << >>
    IN  Document(Join(" ", << head >> \o tech \o tasks \o projs),
                 [section |-> "experience", company |-> Get(job, "company", "")])

\* faulty variant: the training chunk is emitted although the list is empty
TrainingChunks_NoGuard(data) ==
    << Document("Additional training: "
                \o Join("; ", Get(data, "additional_training_education", << >>)),
                [section |-> "training"]) >>

TrainingChunks(data) ==
    LET training == Get(data, "additional_training_education", << >>) IN
    IF Len(training) > 0
    THEN << Document("Additional training: " \o Join("; ", training), [section |-> "training"]) >>
    ELSE << >>

_resume_to_chunks(data) ==
    LET education  == Get(data, "education", << >>)
        experience == Get(data, "professional_experience", << >>)
    IN  ProfileChunks(data)
        \o SummaryChunks(data)
        \o TechnicalChunks(Get(data, "technical_summary", << >>))
        \o [i \in 1..Len(education) |-> EducationChunk(education[i])]
        \o [i \in 1..Len(experience) |-> ExperienceChunk(experience[i])]
        \o TrainingChunks(data)

----------------------------------------------------------------------------
(* ChunkSpec: _resume_to_chunks on a bounded set of resume records *)

\* a key that is either missing or bound to one of `vals`
Optional(key, vals) == {EmptyDict} \cup {key :> v : v \in vals}

\* the i-th entry of a generated education list
EducationEntry(i) ==
    IF i % 3 = 1 THEN [degree |-> "BS", school |-> "MIT", date |-> "1999", gpa |-> "3.9"]
    ELSE IF i % 3 = 2 THEN EmptyDict
    ELSE [degree |-> "MS", notes |-> "honors"]

\* the i-th entry of a generated professional_experience list
ExperienceEntry(i) ==
    IF i % 3 = 1 THEN [company |-> "Acme", role |-> "Engineer", date |-> "2020-2021",
                       tasks |-> <<"Built X">>]
    ELSE IF i % 3 = 2 THEN [company |-> "Initech", title |-> "Dev", tech |-> <<"Python", "SQL">>,
                            tasks |-> << >>,
                            projects |-> <<[name |-> "P1", description |-> "d1"], EmptyDict>>]
    ELSE EmptyDict

ProfileOptions == Optional("profile", {EmptyDict, [name |-> "Joe", email |-> "joe@example.com"]})

SummaryOptions ==
    {EmptyDict} \cup
    { "summary" :> (a @@ b @@ c @@ d) :
        a \in Optional("technical_skills_experience", {JList(<< >>), JList(<<"ten years", "web">>)}),
        b \in Optional("key_strengths", {JStr(""), JStr("focus")}),
        c \in Optional("hobbies", {JList(<< >>), JStr("chess")}),
        d \in Optional("next_great_challenge", {"", "AI"}) }

TechnicalOptions ==
    Optional("technical_summary",
             { << >>,
               << <<"languages", JList(<<"Python", "C#">>)>>, <<"tools", JList(<< >>)>> >>,
               << <<"cloud", JStr("")>>, <<"databases", JStr("SQL")>>, <<"os", JList(<<"Linux">>)>> >> })

EducationOptions ==
    Optional("education", { [i \in 1..n |-> EducationEntry(i)] : n \in 0..MaxEntries })

ExperienceOptions ==
    Optional("professional_experience", { [i \in 1..n |-> ExperienceEntry(i)] : n \in 0..MaxEntries })

TrainingOptions == Optional("additional_training_education", { << >>, <<"AWS cert", "Scrum">> })

ResumeRecords ==
    { p @@ s @@ t @@ e @@ x @@ r :
        p \in ProfileOptions, s \in SummaryOptions, t \in TechnicalOptions,
        e \in EducationOptions, x \in ExperienceOptions, r \in TrainingOptions }

----------------------------------------------------------------------------
(* The service: constants of the code *)

\* the worker threads of the request thread pool that serve /api/ask
Threads == {"t1", "t2"}

\* the characters a question is made of
Chars == {" ", "a"}
Whitespace == {" ", "\t", "\n"}

\* every question of at most MaxQLen characters
Questions == UNION { [1..n -> Chars] : n \in 0..MaxQLen }

\* str.strip(), on a sequence of characters
RECURSIVE LStrip(_)
LStrip(s) == IF Len(s) > 0 /\ Head(s) \in Whitespace THEN LStrip(Tail(s)) ELSE s

RECURSIVE RStrip(_)
RStrip(s) ==
    IF Len(s) > 0 /\ s[Len(s)] \in Whitespace THEN RStrip(SubSeq(s, 1, Len(s) - 1)) ELSE s

Strip(s) == RStrip(LStrip(s))

\* None, and the chain object get_rag_chain returns
None == [obj |-> "None"]
Chain(t, key) == [obj |-> "chain", by |-> t, api_key |-> key]

\* exceptions: class, message (its words), and the component that raised it
NoExc == [cls |-> "none", msg |-> << >>, origin |-> "none"]
Exc(cls, msg, origin) == [cls |-> cls, msg |-> msg, origin |-> origin]

NoChunksError ==
    Exc("ValueError", <<"No", "resume", "chunks", "loaded.">>, "chunker")
MissingKeyError ==
    Exc("ValueError", <<"GOOGLE_API_KEY", "or", "GEMINI_API_KEY", "environment", "variable",
                        "is", "not", "set.">>, "config")
ResumeNotFoundError ==
    Exc("FileNotFoundError", <<"[Errno 2]", "No", "such", "file", "or", "directory:",
                               "resume-full.json">>, "resume")

\* failures of the external providers
EmbeddingErrors == { Exc("OSError", <<"tfhub", "model", "unavailable">>, "embedding") }
IndexErrors     == { Exc("InternalError", <<"chroma", "segment", "unreadable">>, "index") }
QuotaErrors ==
    { Exc("ResourceExhausted", <<"429", "Too", "Many", "Requests">>, "llm"),
      Exc("ChatGoogleGenerativeAIError", <<"RESOURCE_EXHAUSTED">>, "llm"),
      Exc("ChatGoogleGenerativeAIError", <<"Quota", "exceeded", "for", "model">>, "llm") }
LlmErrors == QuotaErrors \cup { Exc("ServiceUnavailable", <<"503", "model", "overloaded">>, "llm") }

\* s in str(e), on the words of the message
In(s, msg) == \E i \in 1..Len(msg) : msg[i] = s

\* str.lower(), on the words of the message
LowerWord(w) == IF w = "Quota" THEN "quota"
                ELSE IF w = "RESOURCE_EXHAUSTED" THEN "resource_exhausted"
                ELSE IF w = "Too" THEN "too" ELSE IF w = "Many" THEN "many"
                ELSE IF w = "Requests" THEN "requests" ELSE w
Lower(msg) == [i \in 1..Len(msg) |-> LowerWord(msg[i])]

\* HTTP responses of /api/ask
NoResp == [status |-> 0, detail |-> ""]
Http(status, detail) == [status |-> status, detail |-> detail]

\* faulty variant: the handler tests the question without stripping it
IsBlank_NoStrip(question) == Len(question) = 0

\* main.ask line 44: not req.question or not req.question.strip()
IsBlank(question) == Len(question) = 0 \/ Len(Strip(question)) = 0

\* main.ask, except ValueError
HandleValueError(e) ==
    IF In("GOOGLE_API_KEY", e.msg) \/ In("GEMINI_API_KEY", e.msg)
    THEN Http(503, "Q&A is not configured")
    ELSE Http(400, Join(" ", e.msg))

\* faulty variant: only the status code is looked for in the message
HandleException_Only429(e) ==
    IF In("429", e.msg)
    THEN Http(429, "Gemini API quota exceeded")
    ELSE Http(500, "Error answering question: " \o Join(" ", e.msg))

\* main.ask, except Exception
HandleException(e) ==
    IF In("429", e.msg) \/ In("RESOURCE_EXHAUSTED", e.msg) \/ In("quota", Lower(e.msg))
    THEN Http(429, "Gemini API quota exceeded")
    ELSE Http(500, "Error answering question: " \o Join(" ", e.msg))

\* the except clauses of main.ask, in order
ErrorResponse(e) ==
    IF e.cls = "ValueError" THEN HandleValueError(e) ELSE HandleException(e)

----------------------------------------------------------------------------
(* The data files *)

File(exists, json) == [exists |-> exists, json |-> json]

ValidResume ==
    [ profile |-> [name |-> "Joe"],
      professional_experience |->
          <<[company |-> "Acme", role |-> "Engineer", date |-> "2020-2021",
             tasks |-> <<"Built X">>]>> ]

\* data/resume-full.json: absent, an empty record, a resume
ResumeFiles == { File(FALSE, EmptyDict), File(TRUE, EmptyDict), File(TRUE, ValidResume) }

\* data/rag-faq.json, its texts kept as character sequences
FaqFile ==
    File(TRUE, [qa |-> << [question |-> <<" ", "Who?", " ">>, answer |-> <<"Joe", "\n">>],
                          [question |-> <<"Why?">>, answer |-> <<" ">>] >>])

\* rag._faq_to_chunks
RECURSIVE FaqItemChunks(_)
FaqItemChunks(items) ==
    IF Len(items) = 0 THEN << >>
    ELSE LET qs == Join("", Strip(Get(items[1], "question", << >>)))
             as == Join("", Strip(Get(items[1], "answer", << >>)))
             here == IF qs # "" /\ as # ""
                     THEN << Document("Question: " \o qs \o "\nAnswer: " \o as, [section |-> "faq"]) >>
                     ELSE << >>
         IN  here \o FaqItemChunks(Tail(items))

_faq_to_chunks(data) == FaqItemChunks(Get(data, "qa", << >>))

\* the documents one build of the index adds for the resume above
OneBuild == _resume_to_chunks(ValidResume) \o _faq_to_chunks(FaqFile.json)

\* number of entries of the collection equal to document d
Count(d) == Cardinality({ i \in 1..Len(index) : index[i] = d })

----------------------------------------------------------------------------
(* The service: state and steps *)

KeyNames == {"GOOGLE_API_KEY", "GEMINI_API_KEY"}

InPipeline == {"grc_load", "grc_build", "grc_llm", "retrieve", "generate"}

\* threads that have yet to reach the index write of get_rag_chain
Pending == { t \in Threads : pc[t] \in {"grc_load", "grc_build"} }

\* the model follows at most MaxWrites index builds
Admit == _chain = None => Len(index) + (Cardinality(Pending) + 1) * Len(OneBuild)
                          <= MaxWrites * Len(OneBuild)

SInit ==
    /\ pc = [t \in Threads |-> "idle"]
    /\ q = [t \in Threads |-> << >>]
    /\ chunks = [t \in Threads |-> << >>]
    /\ exc = [t \in Threads |-> NoExc]
    /\ resp = [t \in Threads |-> NoResp]
    /\ _chain = None
    /\ environ \in [KeyNames -> {"", "k"}]
    /\ resume_file \in ResumeFiles
    /\ index = << >>
    /\ served503 = 0

\* the request of thread t ends with response r (and exception e, if any)
Finish(t, r, e) ==
    /\ pc' = [pc EXCEPT ![t] = "idle"]
    /\ q' = [q EXCEPT ![t] = << >>]
    /\ chunks' = [chunks EXCEPT ![t] = << >>]
    /\ exc' = [exc EXCEPT ![t] = e]
    /\ resp' = [resp EXCEPT ![t] = r]
    /\ served503' = IF r.status = 503 THEN served503 + 1 ELSE served503

\* an exception raised below answer_question reaches the except clauses of ask
Raise(t, e) == Finish(t, ErrorResponse(e), e)

\* main.ask up to the call of answer_question, and answer_question up to
\* its test `if _chain is None`; with a cached chain, up to the call
\* _chain.invoke(question.strip())
Ask(t, question) ==
    /\ UNCHANGED cvars
    /\ pc[t] = "idle"
    /\ IF IsBlank(question)
       THEN /\ Finish(t, Http(400, "Question is required."), NoExc)
            /\ UNCHANGED <<_chain, environ, resume_file, index>>
       ELSE /\ Admit
            /\ pc' = [pc EXCEPT ![t] = IF _chain = None THEN "grc_load" ELSE "retrieve"]
            /\ q' = [q EXCEPT ![t] = IF _chain = None THEN question ELSE Strip(question)]
            /\ exc' = [exc EXCEPT ![t] = NoExc]
            /\ resp' = [resp EXCEPT ![t] = NoResp]
            /\ UNCHANGED <<chunks, _chain, environ, resume_file, index, served503>>

\* get_rag_chain: load the resume and the FAQ, build the chunks
GrcLoad(t) ==
    /\ UNCHANGED cvars
    /\ pc[t] = "grc_load"
    /\ IF ~resume_file.exists
       THEN Raise(t, ResumeNotFoundError)
       ELSE LET cs == _resume_to_chunks(resume_file.json) IN
            IF Len(cs) = 0
            THEN Raise(t, NoChunksError)
            ELSE /\ chunks' = [chunks EXCEPT ![t] =
                        IF FaqFile.exists THEN cs \o _faq_to_chunks(FaqFile.json) ELSE cs]
                 /\ pc' = [pc EXCEPT ![t] = "grc_build"]
                 /\ UNCHANGED <<q, exc, resp, served503>>
    /\ UNCHANGED <<_chain, environ, resume_file, index>>

\* what Chroma.from_documents leaves in the collection: every document is
\* added under a fresh id, whatever the collection already holds
FromDocuments(collection, documents) == collection \o documents

\* faulty variant: the credential is checked before the collection is written
GrcBuild_KeyFirst(t) ==
    /\ UNCHANGED cvars
    /\ pc[t] = "grc_build"
    /\ IF environ["GOOGLE_API_KEY"] = "" /\ environ["GEMINI_API_KEY"] = ""
       THEN /\ Raise(t, MissingKeyError)
            /\ UNCHANGED index
       ELSE /\ index' = FromDocuments(index, chunks[t])
            /\ pc' = [pc EXCEPT ![t] = "grc_llm"]
            /\ UNCHANGED <<q, chunks, exc, resp, served503>>
    /\ UNCHANGED <<_chain, environ, resume_file>>

\* get_rag_chain: embed the chunks and write them to the persisted collection
GrcBuild(t) ==
    /\ UNCHANGED cvars
    /\ pc[t] = "grc_build"
    /\ \/ /\ \E e \in EmbeddingErrors : Raise(t, e)
          /\ UNCHANGED index
       \/ /\ index' = FromDocuments(index, chunks[t])
          /\ pc' = [pc EXCEPT ![t] = "grc_llm"]
          /\ UNCHANGED <<q, chunks, exc, resp, served503>>
    /\ UNCHANGED <<_chain, environ, resume_file>>

\* os.environ.get("GOOGLE_API_KEY") or os.environ.get("GEMINI_API_KEY")
ApiKey == IF environ["GOOGLE_API_KEY"] # "" THEN environ["GOOGLE_API_KEY"]
          ELSE environ["GEMINI_API_KEY"]

\* faulty variant: the chain is stored in _chain before the credential is checked
GrcLlm_CacheFirst(t) ==
    /\ UNCHANGED cvars
    /\ pc[t] = "grc_llm"
    /\ _chain' = Chain(t, ApiKey)
    /\ IF ApiKey = ""
       THEN Raise(t, MissingKeyError)
       ELSE /\ pc' = [pc EXCEPT ![t] = "retrieve"]
            /\ chunks' = [chunks EXCEPT ![t] = << >>]
            /\ q' = [q EXCEPT ![t] = Strip(q[t])]
            /\ UNCHANGED <<exc, resp, served503>>
    /\ UNCHANGED <<environ, resume_file, index>>

\* get_rag_chain: the credential check and the return; answer_question: the
\* assignment of the returned chain to _chain and the call
\* _chain.invoke(question.strip())
GrcLlm(t) ==
    /\ UNCHANGED cvars
    /\ pc[t] = "grc_llm"
    /\ IF ApiKey = ""
       THEN /\ Raise(t, MissingKeyError)
            /\ UNCHANGED _chain
       ELSE /\ _chain' = Chain(t, ApiKey)
            /\ pc' = [pc EXCEPT ![t] = "retrieve"]
            /\ chunks' = [chunks EXCEPT ![t] = << >>]
            /\ q' = [q EXCEPT ![t] = Strip(q[t])]
            /\ UNCHANGED <<exc, resp, served503>>
    /\ UNCHANGED <<environ, resume_file, index>>

\* faulty variant: the retriever adds what it embedded to the collection
Retrieve_Writes(t) ==
    /\ UNCHANGED cvars
    /\ pc[t] = "retrieve"
    /\ pc' = [pc EXCEPT ![t] = "generate"]
    /\ index' = index \o << Document(Join("", q[t]), [section |-> "query"]) >>
    /\ UNCHANGED <<q, chunks, exc, resp, served503, _chain, environ, resume_file>>

\* _chain.invoke: the retriever embeds the question and queries the collection
Retrieve(t) ==
    /\ UNCHANGED cvars
    /\ pc[t] = "retrieve"
    /\ \/ \E e \in IndexErrors : Raise(t, e)
       \/ /\ pc' = [pc EXCEPT ![t] = "generate"]
          /\ UNCHANGED <<q, chunks, exc, resp, served503>>
    /\ UNCHANGED <<_chain, environ, resume_file, index>>

\* _chain.invoke: prompt, generative model, output parser; ask returns the answer
Generate(t) ==
    /\ UNCHANGED cvars
    /\ pc[t] = "generate"
    /\ \/ \E e \in LlmErrors : Raise(t, e)
       \/ Finish(t, Http(200, "answer"), NoExc)
    /\ UNCHANGED <<_chain, environ, resume_file, index>>

\* the operator sets or clears a credential in the process environment
SetEnv(name, value) ==
    /\ UNCHANGED cvars
    /\ environ[name] # value
    /\ environ' = [environ EXCEPT ![name] = value]
    /\ UNCHANGED <<pc, q, chunks, exc, resp, _chain, resume_file, index, served503>>

\* the resume file is created, removed or rewritten
EditResume(f) ==
    /\ UNCHANGED cvars
    /\ resume_file # f
    /\ resume_file' = f
    /\ UNCHANGED <<pc, q, chunks, exc, resp, _chain, environ, index, served503>>

\* the process is stopped and started again: module state is lost, the
\* persisted collection and the files are kept
Restart ==
    /\ UNCHANGED cvars
    /\ pc' = [t \in Threads |-> "idle"]
    /\ q' = [t \in Threads |-> << >>]
    /\ chunks' = [t \in Threads |-> << >>]
    /\ exc' = [t \in Threads |-> NoExc]
    /\ resp' = [t \in Threads |-> NoResp]
    /\ _chain' = None
    /\ UNCHANGED <<environ, resume_file, index, served503>>

Init ==
    /\ SInit
    /\ c_data = EmptyDict /\ c_out = << >> /\ c_done = FALSE

Next ==
    \/ \E t \in Threads, question \in Questions : Ask(t, question)
    \/ \E t \in Threads : GrcLoad(t)
    \/ \E t \in Threads : GrcBuild(t)
    \/ \E t \in Threads : GrcLlm(t)
    \/ \E t \in Threads : Retrieve(t)
    \/ \E t \in Threads : Generate(t)
    \/ \E name \in KeyNames, value \in {"", "k"} : SetEnv(name, value)
    \/ \E f \in ResumeFiles : EditResume(f)
    \/ Restart

Spec == Init /\ [][Next]_vars

----------------------------------------------------------------------------
(* ChunkSpec *)

ChunkInit ==
    /\ c_data \in ResumeRecords
    /\ c_out = << >>
    /\ c_done = FALSE
    /\ pc = [t \in Threads |-> "idle"]
    /\ q = [t \in Threads |-> << >>]
    /\ chunks = [t \in Threads |-> << >>]
    /\ exc = [t \in Threads |-> NoExc]
    /\ resp = [t \in Threads |-> NoResp]
    /\ _chain = None
    /\ environ = [k \in KeyNames |-> ""]
    /\ resume_file = File(FALSE, EmptyDict)
    /\ index = << >>
    /\ served503 = 0

\* chunks = _resume_to_chunks(full_resume)
ChunkResume ==
    /\ ~c_done
    /\ c_out' = _resume_to_chunks(c_data)
    /\ c_done' = TRUE
    /\ UNCHANGED c_data
    /\ UNCHANGED svars

ChunkSpec == ChunkInit /\ [][ChunkResume]_vars

----------------------------------------------------------------------------
(* Properties *)

\* the caller-facing failure kinds, by HTTP status of /api/ask
Kind(status) ==
    IF status = 400 THEN "InvalidInput"
    ELSE IF status = 503 THEN "ConfigurationError"
    ELSE IF status = 429 THEN "RateLimited"
    ELSE IF status = 500 THEN "UpstreamFailure"
    ELSE "none"

\* thread t takes a step of its own request (not a restart of the process)
ThreadStep(t) == pc'[t] # pc[t] /\ (pc'[t] # "idle" \/ resp'[t] # NoResp)

\* thread t leaves its request with an exception
Raises(t) == pc[t] # "idle" /\ pc'[t] = "idle" /\ exc'[t] # NoExc

\* a question that is empty once whitespace is trimmed
Blank(question) == \A i \in 1..Len(question) : question[i] \in Whitespace

\* the questions a client may send that are blank
BlankQuestions == UNION { [1..n -> Chars \cap Whitespace] : n \in 0..MaxQLen }

CredentialSet == \E k \in KeyNames : environ[k] # ""

\* the collection holds exactly the documents of one build, each once
IndexIsOneBuild ==
    /\ Len(index) = Len(OneBuild)
    /\ \A i \in 1..Len(OneBuild) : Count(OneBuild[i]) = 1

\* C1: no poisoning. A cached pipeline is always a fully wired one (built
\* with a credential); the missing credential is answered with
\* ConfigurationError; an initialization that fails leaves _chain as it
\* was; a call that finds _chain uninitialized runs the initialization from
\* its start; and an initialization that reaches the credential check with
\* a credential set caches the pipeline and goes on to answer.
C1_NoPoisoning ==
    /\ [](_chain # None => _chain.api_key # "")
    /\ [](\A t \in Threads :
            exc[t] = MissingKeyError => Kind(resp[t].status) = "ConfigurationError")
    /\ [][\A t \in Threads :
            /\ (pc[t] \in {"grc_load", "grc_build", "grc_llm"} /\ Raises(t))
                   => _chain' = _chain
            /\ (pc[t] = "idle" /\ pc'[t] # "idle" /\ _chain = None)
                   => pc'[t] = "grc_load"
            /\ (pc[t] = "grc_llm" /\ ThreadStep(t) /\ CredentialSet)
                   => (_chain' # None /\ pc'[t] = "retrieve" /\ exc'[t] = NoExc)
         ]_vars

\* C1 witness: one request was answered 503 for the missing credential, and
\* in the same process a later initialization cached the pipeline and the
\* request was answered
C1_Witness ==
    \E t, u \in Threads :
        /\ t # u
        /\ resp[t].status = 503 /\ exc[t] = MissingKeyError
        /\ _chain # None /\ _chain.by = u
        /\ resp[u].status = 200
        /\ Len(index) = 2 * Len(OneBuild)

\* C2: a question that is blank after trimming is answered 400
\* (InvalidInput) in one step that touches neither the cached pipeline nor
\* the collection, whatever the pipeline state; no thread ever stands in
\* the pipeline (initialization, retrieval, generation) with such a question.
C2_BlankRejected ==
    /\ [](\A t \in Threads : pc[t] \in InPipeline => ~Blank(q[t]))
    /\ [][\A t \in Threads : \A question \in BlankQuestions :
            (pc[t] = "idle" /\ (pc'[t] # "idle" \/ resp'[t] # resp[t]) /\ Ask(t, question))
                => /\ pc'[t] = "idle"
                   /\ Kind(resp'[t].status) = "InvalidInput"
                   /\ exc'[t] = NoExc
                   /\ UNCHANGED <<_chain, index, chunks, served503>>
         ]_vars

\* C2 witness: the thread that built the pipeline has since had a blank
\* question rejected (the Ready state)
C2_Witness ==
    \E t \in Threads :
        /\ _chain # None /\ _chain.by = t
        /\ resp[t] = Http(400, "Question is required.")

\* C3 as stated: within one process, once _chain holds a pipeline it is
\* never assigned again, and a call that finds it set does not run
\* get_rag_chain.
C3_SingleAssignment ==
    [][/\ (_chain # None /\ _chain' # None) => _chain' = _chain
       /\ \A t \in Threads :
            (pc[t] = "idle" /\ pc'[t] # "idle" /\ _chain # None) => pc'[t] = "retrieve"
      ]_vars

\* C4 as stated: when two first calls have both run the index build, the
\* collection holds what one build produces, each chunk once.
C4_RaceBenign ==
    \A t, u \in Threads :
        (t # u /\ pc[t] = "grc_llm" /\ pc[u] = "grc_llm") => IndexIsOneBuild

\* C5 as stated: a request that fails because the resume file is absent or
\* yields no chunk is answered with ConfigurationError.
C5_MissingResumeIsConfigurationError ==
    \A t \in Threads :
        exc[t] \in {ResumeNotFoundError, NoChunksError}
            => Kind(resp[t].status) = "ConfigurationError"

\* C6: a quota report of the generative model ends the request (no retry)
\* with RateLimited, a kind of its own.
C6_QuotaIsRateLimited ==
    \A t \in Threads :
        (exc[t].origin = "llm" /\ exc[t] \in QuotaErrors)
            => /\ pc[t] = "idle"
               /\ resp[t].status = 429
               /\ Kind(resp[t].status) = "RateLimited"
               /\ Kind(resp[t].status) \notin {"UpstreamFailure", "ConfigurationError", "InvalidInput"}

\* C6 witness: the thread that built the pipeline and a thread that was
\* served from the cache have both had a quota report answered 429
C6_Witness ==
    \E t, u \in Threads :
        /\ t # u
        /\ exc[t] \in QuotaErrors /\ resp[t].status = 429
        /\ exc[u] \in QuotaErrors /\ resp[u].status = 429 /\ exc[u] # exc[t]
        /\ _chain # None /\ _chain.by = t
        /\ IndexIsOneBuild

\* C7 as stated: an initialization that finds documents in the persisted
\* collection (no other request in the pipeline, no pipeline cached, no
\* earlier failure for a missing credential) adds none.
C7_OpenIfPresent ==
    [][\A t \in Threads :
          (/\ pc[t] = "grc_build" /\ pc'[t] = "grc_llm"
           /\ \A u \in Threads \ {t} : pc[u] = "idle"
           /\ served503 = 0
           /\ _chain = None
           /\ index # << >>)
              => index' = index
      ]_vars

\* a value of a summary field or technical category that is not empty
NonEmptyValue(x) == (x.t = "list" /\ x.v # << >>) \/ (x.t = "str" /\ x.v # "")

\* the number of structural units of a resume record
ExpectedChunks(data) ==
    LET summary == IF "summary" \in DOMAIN data THEN data["summary"] ELSE EmptyDict
        ts      == IF "technical_summary" \in DOMAIN data THEN data["technical_summary"] ELSE << >>
    IN  (IF "profile" \in DOMAIN data /\ DOMAIN data["profile"] # {} THEN 1 ELSE 0)
        + Cardinality({ k \in {"technical_skills_experience", "key_strengths", "hobbies"} :
                            k \in DOMAIN summary /\ NonEmptyValue(summary[k]) })
        + (IF "next_great_challenge" \in DOMAIN summary /\ summary["next_great_challenge"] # ""
           THEN 1 ELSE 0)
        + Cardinality({ i \in 1..Len(ts) : NonEmptyValue(ts[i][2]) })
        + (IF "education" \in DOMAIN data THEN Len(data["education"]) ELSE 0)
        + (IF "professional_experience" \in DOMAIN data
           THEN Len(data["professional_experience"]) ELSE 0)
        + (IF "additional_training_education" \in DOMAIN data
              /\ data["additional_training_education"] # << >> THEN 1 ELSE 0)

\* C8: _resume_to_chunks returns one chunk per non-empty structural unit
\* of the record, and no chunk with an empty text.
C8_ChunkCount ==
    c_done => /\ Len(c_out) = ExpectedChunks(c_data)
              /\ \A i \in 1..Len(c_out) : c_out[i].page_content # ""

\* C8 witness: a record with an empty profile, an empty hobbies list and
\* lists of several entries has been chunked
C8_Witness ==
    /\ c_done
    /\ "profile" \in DOMAIN c_data /\ DOMAIN c_data["profile"] = {}
    /\ "summary" \in DOMAIN c_data
    /\ "hobbies" \in DOMAIN c_data["summary"] /\ c_data["summary"]["hobbies"] = JList(<< >>)
    /\ "education" \in DOMAIN c_data /\ Len(c_data["education"]) = 2
    /\ "professional_experience" \in DOMAIN c_data /\ Len(c_data["professional_experience"]) = 2
    /\ Len(c_out) >= 5

\* C9: a step of retrieval or generation changes neither the persisted
\* collection nor _chain; the collection changes only in the build step of
\* get_rag_chain.
C9_RetrievalIsPureRead ==
    [][/\ \A t \in Threads :
            (pc[t] \in {"retrieve", "generate"} /\ ThreadStep(t))
                => (index' = index /\ _chain' = _chain)
       /\ index' # index => \E t \in Threads : pc[t] = "grc_build" /\ pc'[t] = "grc_llm"
      ]_vars

\* C9 witness: a call served from the cached pipeline of another thread
\* was answered, and the collection holds one build
C9_Witness ==
    \E t, u \in Threads :
        /\ t # u
        /\ _chain # None /\ _chain.by = u
        /\ resp[t].status = 200
        /\ pc[u] = "idle" /\ resp[u].status = 500 /\ exc[u].origin = "index"
        /\ IndexIsOneBuild

\* C10: the credential check comes after the index write: a thread at the
\* check has its chunks in the collection, and the collection has received
\* one full build for every 503 answered.
C10_WriteBeforeKeyCheck ==
    /\ served503 * Len(OneBuild) <= Len(index)
    /\ \A t \in Threads :
          pc[t] = "grc_llm" =>
              /\ chunks[t] # << >>
              /\ \A i \in 1..Len(chunks[t]) : Count(chunks[t][i]) >= 1
    /\ \A t \in Threads :
          exc[t] = MissingKeyError => \A i \in 1..Len(OneBuild) : Count(OneBuild[i]) >= 1

\* C10 witness: two calls in a row failed for the missing credential, two
\* builds were written and no pipeline is cached
C10_Witness ==
    /\ served503 = 2
    /\ Len(index) = 2 * Len(OneBuild)
    /\ _chain = None
    /\ \A t \in Threads : pc[t] = "idle"
    /\ \E t \in Threads : exc[t] = MissingKeyError

====
